---- MODULE Spec2Model ----
(***************************************************************************)
(* Model of ironic_python_agent/ironic_api_client.py: APIClient.lookup_node *)
(* (a retried lookup driven by loopingcall.DynamicLoopingCall, with the     *)
(* exponential backoff of _do_lookup.next_interval) and APIClient.heartbeat *)
(* (a single request whose Heartbeat-Before header is parsed as a float).   *)
(***************************************************************************)
EXTENDS Integers, Sequences, FiniteSets

(* ------------------------------ bounds -------------------------------- *)

\* largest timeout passed to lookup_node (the smallest is -1)
MaxTimeout == 14
\* largest starting_interval passed to lookup_node (the smallest is 0)
MaxStart == 3
\* the same two, for the lookup_node calls that run side by side
MaxSharedTimeout == 6
MaxSharedStart == 2
\* the counters and histories of a run record its first MaxCalls
\* invocations of _do_lookup; a longer run goes on, keeping the most recent
\* entries only
MaxCalls == 6

(* --------------------------- python values ----------------------------- *)

\* str values are sequences of one-character strings
Chars(k) ==
    CASE k = "node" -> <<"n", "o", "d", "e">>
      [] k = "uuid" -> <<"u", "u", "i", "d">>
      [] k = "heartbeat_timeout" ->
            <<"h", "e", "a", "r", "t", "b", "e", "a", "t", "_",
              "t", "i", "m", "e", "o", "u", "t">>
      [] k = "abc" -> <<"a", "b", "c">>
      [] k = "xyz" -> <<"x", "y", "z">>
      [] k = "my-uuid-1" -> <<"m", "y", "-", "u", "u", "i", "d", "-", "1">>
      [] OTHER -> <<>>

\* values json.loads can produce
JNull == [t |-> "null", v |-> 0]
JTrue == [t |-> "bool", v |-> 1]
JNum(n) == [t |-> "num", v |-> n]
JStr(k) == [t |-> "str", v |-> Chars(k)]
JList(s) == [t |-> "list", v |-> s]
JObj(r) == [t |-> "obj", v |-> r]

Last(s) == s[Len(s)]

\* the n most recent entries of a history
Recent(s, n) == IF Len(s) <= n THEN s ELSE SubSeq(s, Len(s) - n + 1, Len(s))

\* a in b for two str values: a occurs in b as a substring
IsSubstring(a, b) ==
    \E i \in 0..(Len(b) - Len(a)) : SubSeq(b, i + 1, i + Len(a)) = a

\* the outcome of a python expression: a value, or a raised TypeError
Value(x) == [raised |-> FALSE, val |-> x]
TypeError == [raised |-> TRUE, val |-> FALSE]

\* key in x, for a str key
PyIn(key, x) ==
    CASE x.t = "obj" -> Value(key \in DOMAIN x.v)
      [] x.t = "list" -> Value(\E i \in 1..Len(x.v) : x.v[i] = JStr(key))
      [] x.t = "str" -> Value(IsSubstring(Chars(key), x.v))
      [] OTHER -> TypeError

\* x[key], for a str key that is in x when x is a dict
PyIndex(x, key) ==
    IF x.t = "obj" THEN Value(x.v[key]) ELSE TypeError

(* ---------------------------- the transport ---------------------------- *)

NodeAbc == JObj([uuid |-> JStr("abc")])
NodeXyz == JObj([uuid |-> JStr("xyz"), driver |-> JStr("abc")])

\* the values response.content can decode to
Bodies ==
    { JNum(5), JNull, JTrue,
      JStr("node"), JStr("abc"),
      JList(<<JStr("node")>>), JList(<<>>),
      JObj([error |-> JStr("abc")]),
      JObj([node |-> NodeAbc]),
      JObj([heartbeat_timeout |-> JNum(300)]),
      JObj([node |-> JObj([name |-> JStr("abc")]), heartbeat_timeout |-> JNum(300)]),
      JObj([node |-> JNull, heartbeat_timeout |-> JNum(300)]),
      JObj([node |-> JNum(5), heartbeat_timeout |-> JNum(300)]),
      JObj([node |-> JStr("my-uuid-1"), heartbeat_timeout |-> JNum(300)]),
      JObj([node |-> JList(<<JStr("uuid")>>), heartbeat_timeout |-> JNum(300)]),
      JObj([node |-> JObj([uuid |-> JNull]), heartbeat_timeout |-> JNull]),
      JObj([node |-> NodeAbc, heartbeat_timeout |-> JNum(300)]),
      JObj([node |-> NodeXyz, heartbeat_timeout |-> JNum(60)]) }

\* response.content: the text of a JSON value, or something else
Contents ==
    [json : {TRUE}, value : Bodies] \cup {[json |-> FALSE, value |-> JNull]}

\* requests.codes.OK and requests.codes.NO_CONTENT
OK == 200
NO_CONTENT == 204

StatusCodes == {200, 201, 204, 500}

\* what self._request can do: raise, or return a response
TransportFailure == [failed |-> TRUE, status_code |-> 0,
                     content |-> [json |-> FALSE, value |-> JNull]]
Responses ==
    [failed : {FALSE}, status_code : StatusCodes, content : Contents]
        \cup {TransportFailure}

\* json.loads(response.content): a value, or an exception
json_loads(content) ==
    IF content.json THEN Value(content.value)
    ELSE [raised |-> TRUE, val |-> JNull]

(* ------------------------ _do_lookup (the work unit) ------------------- *)

\* a backoff that doubles the seed instead of the latest interval
new_interval_from_seed(ivs) == ivs[1] * 2

\* new_interval = intervals[-1] * 2
new_interval(ivs) == Last(ivs) * 2

\* a deadline check that adds the previous interval, not the new one
deadline_exceeded_previous(total, new, tmo) == total + (new \div 2) > tmo

\* a deadline check that looks at the time already spent only
deadline_exceeded_spent(total, new, tmo) == total > tmo

\* a deadline check that refuses an interval that exactly uses up the timeout
deadline_exceeded_or_met(total, new, tmo) == total + new >= tmo

\* total_time[0] + new_interval > timeout
deadline_exceeded(total, new, tmo) == total + new > tmo

\* how one call of _do_lookup ends, with the lists it leaves behind:
\*   "return"          it returned value, the delay before the next call
\*   "LoopingCallDone" it raised LoopingCallDone(retvalue = value)
\*   "TypeError"       another exception left it
Ending(kind, value, ivs, total) ==
    [kind |-> kind, value |-> value, intervals |-> ivs, total_time |-> total]

\* LoopingCallDone() carries retvalue = True
DefaultRetvalue == JTrue

\* a next_interval that hands back the interval it doubled
next_interval_stale(tmo, ivs, total) ==
    LET new == new_interval(ivs) IN
    IF deadline_exceeded(total, new, tmo)
    THEN Ending("LoopingCallDone", DefaultRetvalue, ivs, total)
    ELSE Ending("return", JNum(Last(ivs)), Append(ivs, new), total + new)

\* a next_interval that charges the interval it doubled, not the new one
next_interval_charging_previous(tmo, ivs, total) ==
    LET new == new_interval(ivs) IN
    IF deadline_exceeded(total, new, tmo)
    THEN Ending("LoopingCallDone", DefaultRetvalue, ivs, total)
    ELSE Ending("return", JNum(new), Append(ivs, new), total + Last(ivs))

next_interval(tmo, ivs, total) ==
    LET new == new_interval(ivs) IN
    IF deadline_exceeded(total, new, tmo)
    THEN Ending("LoopingCallDone", DefaultRetvalue, ivs, total)
    ELSE Ending("return", JNum(new), Append(ivs, new), total + new)

\* 'node' not in content or 'uuid' not in content['node']:
\* "invalid", "valid", or "TypeError" when an operand cannot be searched
node_check(content) ==
    LET hasNode == PyIn("node", content) IN
    IF hasNode.raised THEN "TypeError"
    ELSE IF ~hasNode.val THEN "invalid"
    ELSE LET node == PyIndex(content, "node") IN
         IF node.raised THEN "TypeError"
         ELSE LET hasUuid == PyIn("uuid", node.val) IN
              IF hasUuid.raised THEN "TypeError"
              ELSE IF ~hasUuid.val THEN "invalid"
              ELSE "valid"

\* a check that takes a present heartbeat_timeout for a missing one
heartbeat_check_inverted(content) ==
    LET has == PyIn("heartbeat_timeout", content) IN
    IF has.raised THEN "TypeError"
    ELSE IF has.val THEN "invalid"
    ELSE "valid"

\* 'heartbeat_timeout' not in content
heartbeat_check(content) ==
    LET has == PyIn("heartbeat_timeout", content) IN
    IF has.raised THEN "TypeError"
    ELSE IF ~has.val THEN "invalid"
    ELSE "valid"

\* a status test that lets every 2xx status through
lookup_status_not_2xx(status_code) == status_code \div 100 # 2

\* response.status_code != requests.codes.OK
lookup_status_bad(status_code) == status_code # OK

_do_lookup(r, tmo, ivs, total) ==
    IF r.failed THEN next_interval(tmo, ivs, total)
    ELSE IF lookup_status_bad(r.status_code) THEN next_interval(tmo, ivs, total)
    ELSE LET decoded == json_loads(r.content) IN
         IF decoded.raised THEN next_interval(tmo, ivs, total)
         ELSE LET content == decoded.val
                  nodeOk == node_check(content) IN
              IF nodeOk = "TypeError" THEN Ending("TypeError", JNull, ivs, total)
              ELSE IF nodeOk = "invalid" THEN next_interval(tmo, ivs, total)
              ELSE LET hbOk == heartbeat_check(content) IN
                   IF hbOk = "TypeError"
                   THEN Ending("TypeError", JNull, ivs, total)
                   ELSE IF hbOk = "invalid"
                   THEN next_interval(tmo, ivs, total)
                   ELSE Ending("LoopingCallDone", content, ivs, total)

(* ------------------------- float(header value) ------------------------- *)

Digits == {"0", "1", "2", "3", "4", "5", "6", "7", "8", "9"}

DigitValue(c) ==
    CASE c = "0" -> 0 [] c = "1" -> 1 [] c = "2" -> 2 [] c = "3" -> 3
      [] c = "4" -> 4 [] c = "5" -> 5 [] c = "6" -> 6 [] c = "7" -> 7
      [] c = "8" -> 8 [] c = "9" -> 9

AllDigits(s) == \A i \in 1..Len(s) : s[i] \in Digits

RECURSIVE DecimalValue(_)
DecimalValue(s) ==
    IF s = <<>> THEN 0
    ELSE DecimalValue(SubSeq(s, 1, Len(s) - 1)) * 10 + DigitValue(Last(s))

\* s without its leading and trailing blanks
RECURSIVE Strip(_)
Strip(s) ==
    IF s # <<>> /\ s[1] = " " THEN Strip(Tail(s))
    ELSE IF s # <<>> /\ Last(s) = " " THEN Strip(SubSeq(s, 1, Len(s) - 1))
    ELSE s

\* the position of the first c in s, Len(s) + 1 when there is none
IndexOf(s, c) ==
    IF \E i \in 1..Len(s) : s[i] = c
    THEN CHOOSE i \in 1..Len(s) : s[i] = c /\ \A j \in 1..(i - 1) : s[j] # c
    ELSE Len(s) + 1

\* an optional sign in front of s
Signed(s) ==
    IF s # <<>> /\ s[1] \in {"+", "-"}
    THEN [neg |-> s[1] = "-", rest |-> Tail(s)]
    ELSE [neg |-> FALSE, rest |-> s]

\* a float is (-1)^neg * mant * 10^exp, mant without trailing zeros
RECURSIVE Float(_, _, _)
Float(neg, mant, exp) ==
    IF mant = 0 THEN [neg |-> neg, mant |-> 0, exp |-> 0]
    ELSE IF mant % 10 = 0 THEN Float(neg, mant \div 10, exp + 1)
    ELSE [neg |-> neg, mant |-> mant, exp |-> exp]

NaN == [neg |-> FALSE, mant |-> -1, exp |-> 0]
Infinity(neg) == [neg |-> neg, mant |-> -2, exp |-> 0]

ValueError == [raised |-> TRUE, val |-> NaN]

\* float(s) for a str s in lower case: blanks are stripped; the rest is a
\* sign, then nan, inf, infinity, or digits with at most one point and at
\* least one digit, then an optional exponent e[sign]digits
float(s) ==
    LET t == Signed(Strip(s))
        body == t.rest
        ePos == IndexOf(body, "e")
        number == SubSeq(body, 1, ePos - 1)
        hasExp == ePos <= Len(body)
        expo == Signed(SubSeq(body, ePos + 1, Len(body)))
        dot == IndexOf(number, ".")
        whole == SubSeq(number, 1, dot - 1)
        frac == SubSeq(number, dot + 1, Len(number))
        expValue == IF hasExp
                    THEN IF expo.neg THEN 0 - DecimalValue(expo.rest)
                         ELSE DecimalValue(expo.rest)
                    ELSE 0
    IN  IF body = <<"n", "a", "n">> THEN Value(NaN)
        ELSE IF body \in {<<"i", "n", "f">>,
                          <<"i", "n", "f", "i", "n", "i", "t", "y">>}
        THEN Value(Infinity(t.neg))
        ELSE IF /\ AllDigits(whole)
                /\ AllDigits(frac)
                /\ Len(whole) + Len(frac) >= 1
                /\ hasExp => (expo.rest # <<>> /\ AllDigits(expo.rest))
        THEN Value(Float(t.neg, DecimalValue(whole \o frac),
                         expValue - Len(frac)))
        ELSE ValueError

(* ------------------------------ heartbeat ------------------------------ *)

\* the texts a Heartbeat-Before header can carry
HeaderTexts ==
    { <<"1", "0", ".", "5">>, <<"3", "0", "0">>, <<"0">>,
      <<"n", "o", "t", "a", "n", "u", "m", "b", "e", "r">>,
      <<>>, <<" ", "7", " ">>, <<"-", "2", ".", "5", "0">>,
      <<"1", "e", "2">>, <<"1", "e">>, <<"1", ".", "2", ".", "3">>,
      <<".">>, <<"n", "a", "n">>, <<"1", "0", " ", "5">> }

\* response.headers of a heartbeat response: with or without the header
Headers == [present : {TRUE}, text : HeaderTexts]
               \cup {[present |-> FALSE, text |-> <<>>]}

\* what self._request can do for heartbeat: raise, or return a response
HeartbeatFailure == [failed |-> TRUE, status_code |-> 0,
                     headers |-> [present |-> FALSE, text |-> <<>>]]
HeartbeatResponses ==
    [failed : {FALSE}, status_code : StatusCodes, headers : Headers]
        \cup {HeartbeatFailure}

\* '/{api_version}/nodes/{uuid}/vendor_passthru/heartbeat'
api_version == "v1"
heartbeat_path(uuid) ==
    <<api_version, "nodes", uuid, "vendor_passthru", "heartbeat">>

\* 'http://{0}:{1}'.format(advertise_address[0], advertise_address[1])
_get_agent_url(advertise_address) ==
    <<"http://", advertise_address[1], ":", advertise_address[2]>>

\* a status test that accepts 200 in place of 204
heartbeat_status_not_ok(status_code) == status_code # OK

\* response.status_code != requests.codes.NO_CONTENT
heartbeat_status_bad(status_code) == status_code # NO_CONTENT

HeartbeatError(msg) == [kind |-> "HeartbeatError", msg |-> msg, value |-> NaN]

\* float(response.headers['Heartbeat-Before']) and its two except clauses
heartbeat_before(headers) ==
    IF ~headers.present
    THEN HeartbeatError("Missing Heartbeat-Before header")
    ELSE LET parsed == float(headers.text) IN
         IF parsed.raised
         THEN HeartbeatError("Invalid Heartbeat-Before header")
         ELSE [kind |-> "returned", msg |-> "", value |-> parsed.val]

\* heartbeat, given what its one _request does
heartbeat(r) ==
    IF r.failed THEN HeartbeatError("transport")
    ELSE IF heartbeat_status_bad(r.status_code)
    THEN HeartbeatError("Invalid status code")
    ELSE heartbeat_before(r.headers)

\* a heartbeat that asks again when its request raised
heartbeat_call_retrying(rs) ==
    IF rs[1].failed THEN [result |-> heartbeat(rs[2]), requests |-> 2]
    ELSE [result |-> heartbeat(rs[1]), requests |-> 1]

\* a call of heartbeat on a transport that would answer successive requests
\* with rs[1], rs[2], ...: the one _request of line 60 gets rs[1], and
\* every path after it returns or raises
heartbeat_call(rs) == [result |-> heartbeat(rs[1]), requests |-> 1]

(* ------------------------------- state --------------------------------- *)

VARIABLES
    timeout,            \* lookup_node's timeout argument
    starting_interval,  \* lookup_node's starting_interval argument
    intervals,          \* the intervals list shared by the calls of one run
    total_time,         \* total_time[0]
    pc,                 \* "call", "sleep", "wait", "end": where the run is
    idle,               \* the delay the looping call sleeps next
    looping,            \* how the looping call ended: what wait() delivers
    result,             \* how lookup_node ended
    response,           \* the response of the latest _request of the run
    ending,             \* how the latest call of _do_lookup ended
    calls,              \* number of _request calls made by the run, up to
                        \* MaxCalls
    delays,             \* the delays slept so far, in order
    all500,             \* every response of the run so far was an HTTP 500
    allFailed,          \* every _request of the run so far raised
    hbRequest,          \* the request of the latest heartbeat call
    hbResponse,         \* what _request did in the latest heartbeat call
    hbResult,           \* how the latest heartbeat call ended
    hbRequests,         \* number of _request calls of the latest heartbeat call
    heap,               \* the list objects of the process, by address
    run                 \* the lookup_node calls that run side by side

lookupVars == <<timeout, starting_interval, intervals, total_time, pc, idle,
                looping, result, response, ending, calls, delays, all500,
                allFailed>>

heartbeatVars == <<hbRequest, hbResponse, hbResult, hbRequests>>

sharedVars == <<heap, run>>

vars == <<lookupVars, heartbeatVars, sharedVars>>

NoResponse == [failed |-> FALSE, status_code |-> 0,
               content |-> [json |-> FALSE, value |-> JNull]]
Pending == [kind |-> "pending", value |-> JNull]

NoRequest == [path |-> <<>>, agent_url |-> <<>>]
NoHeartbeat == [kind |-> "pending", msg |-> "", value |-> NaN]

\* the addresses of the two lists made when _do_lookup was defined: the
\* defaults of its parameters intervals and total_time
DefaultIntervals == 1
DefaultTotalTime == 2

\* the heap of a process that has defined APIClient: intervals=[1],
\* total_time=[0]
DefaultLists == <<(<<1>>), (<<0>>)>>

Callers == {1, 2}
NotCalled == [pc |-> "idle", timeout |-> 0, starting_interval |-> 0,
              kw |-> [timeout |-> 0], idle |-> 0, ending |-> "none"]

\* no lookup_node call runs side by side with another
SharedIdle ==
    /\ heap = DefaultLists
    /\ run = [c \in Callers |-> NotCalled]

\* a client on which heartbeat has not been called
HeartbeatIdle ==
    /\ hbRequest = NoRequest
    /\ hbResponse = HeartbeatFailure
    /\ hbResult = NoHeartbeat
    /\ hbRequests = 0

\* lookup_node builds the looping call: intervals=[starting_interval],
\* total_time=[0], and starts it without an initial delay
Init ==
    /\ timeout \in -1..MaxTimeout
    /\ starting_interval \in 0..MaxStart
    /\ intervals = <<starting_interval>>
    /\ total_time = 0
    /\ pc = "call"
    /\ idle = 0
    /\ looping = Pending
    /\ result = Pending
    /\ response = NoResponse
    /\ ending = "none"
    /\ calls = 0
    /\ delays = <<>>
    /\ all500 = TRUE
    /\ allFailed = TRUE
    /\ HeartbeatIdle
    /\ SharedIdle

(* --------------------------- the looping call -------------------------- *)

\* one iteration of the looping call: it calls _do_lookup, which makes one
\* request; a returned delay is slept, LoopingCallDone ends the loop with
\* its retvalue, any other exception ends it and is handed to wait()
RunDoLookup ==
    /\ pc = "call"
    /\ \E r \in Responses :
         LET e == _do_lookup(r, timeout, intervals, total_time) IN
         /\ response' = r
         /\ ending' = e.kind
         /\ intervals' = Recent(e.intervals, MaxCalls + 1)
         /\ total_time' = e.total_time
         /\ all500' = (all500 /\ ~r.failed /\ r.status_code = 500)
         /\ allFailed' = (allFailed /\ r.failed)
         /\ IF e.kind = "return"
            THEN /\ pc' = "sleep"
                 /\ idle' = e.value.v
                 /\ looping' = looping
            ELSE /\ pc' = "wait"
                 /\ idle' = idle
                 /\ looping' = IF e.kind = "LoopingCallDone"
                               THEN [kind |-> "retvalue", value |-> e.value]
                               ELSE [kind |-> e.kind, value |-> JNull]
    /\ calls' = IF calls < MaxCalls THEN calls + 1 ELSE calls
    /\ UNCHANGED <<timeout, starting_interval, result, delays, heartbeatVars,
                   sharedVars>>

\* the looping call sleeps the delay _do_lookup returned, then calls again
Sleep ==
    /\ pc = "sleep"
    /\ delays' = Recent(Append(delays, idle), MaxCalls)
    /\ pc' = "call"
    /\ UNCHANGED <<timeout, starting_interval, intervals, total_time, idle,
                   looping, result, response, ending, calls, all500,
                   allFailed, heartbeatVars, sharedVars>>

(* ----------------------------- lookup_node ----------------------------- *)

\* a timeout test that takes every delivered value for the timeout
is_timeout_always(node_content) == node_content.t \in {"bool", "obj"}

\* node_content is True
is_timeout(node_content) == node_content = JTrue

\* lookup_node after timer.start().wait(): an exception of the looping call
\* propagates; True raises LookupNodeError; anything else is returned
lookup_node_result(l) ==
    IF l.kind # "retvalue" THEN [kind |-> l.kind, value |-> JNull]
    ELSE IF is_timeout(l.value)
    THEN [kind |-> "LookupNodeError", value |-> JNull]
    ELSE [kind |-> "returned", value |-> l.value]

LookupNodeEnd ==
    /\ pc = "wait"
    /\ result' = lookup_node_result(looping)
    /\ pc' = "end"
    /\ UNCHANGED <<timeout, starting_interval, intervals, total_time, idle,
                   looping, response, ending, calls, delays, all500,
                   allFailed, heartbeatVars, sharedVars>>

Next == RunDoLookup \/ Sleep \/ LookupNodeEnd

Spec == Init /\ [][Next]_vars

(* --------------------------- heartbeat calls --------------------------- *)

NodeUuids == {"abc", "xyz"}
AdvertiseAddresses == {<<"192.0.2.1", "9999">>, <<"agent.example", "9999">>}

\* a client on which no lookup_node is running, before its first heartbeat
HeartbeatInit ==
    /\ timeout = 0
    /\ starting_interval = 1
    /\ intervals = <<1>>
    /\ total_time = 0
    /\ pc = "idle"
    /\ idle = 0
    /\ looping = Pending
    /\ result = Pending
    /\ response = NoResponse
    /\ ending = "none"
    /\ calls = 0
    /\ delays = <<>>
    /\ all500 = TRUE
    /\ allFailed = TRUE
    /\ HeartbeatIdle
    /\ SharedIdle

\* one call of heartbeat(uuid, advertise_address), on a transport that
\* would answer successive requests with rs[1], rs[2]
Heartbeat ==
    /\ \E uuid \in NodeUuids, advertise_address \in AdvertiseAddresses :
         hbRequest' = [path |-> heartbeat_path(uuid),
                       agent_url |-> _get_agent_url(advertise_address)]
    /\ \E rs \in HeartbeatResponses \X HeartbeatResponses :
         LET call == heartbeat_call(rs) IN
         /\ hbResponse' = rs[1]
         /\ hbResult' = call.result
         /\ hbRequests' = call.requests
    /\ UNCHANGED <<lookupVars, sharedVars>>

HeartbeatNext == Heartbeat

HeartbeatSpec == HeartbeatInit /\ [][HeartbeatNext]_vars

(* ------------------- lookup_node calls side by side -------------------- *)

\* a lookup_node that leaves intervals and total_time out of the keyword
\* arguments of the looping call
lookup_node_kwargs_without_lists(h, tmo, st) ==
    [heap |-> h, kw |-> [timeout |-> tmo]]

\* the keyword arguments lookup_node hands to DynamicLoopingCall: the
\* timeout and two lists it has just made, [starting_interval] and [0]
lookup_node_kwargs(h, tmo, st) ==
    [heap |-> h \o <<(<<st>>), (<<0>>)>>,
     kw |-> [timeout |-> tmo, intervals |-> Len(h) + 1,
             total_time |-> Len(h) + 2]]

\* the lists _do_lookup works on when it is called with **kw: those passed,
\* its defaults for those left out
do_lookup_lists(kw) ==
    [intervals |-> IF "intervals" \in DOMAIN kw THEN kw.intervals
                   ELSE DefaultIntervals,
     total_time |-> IF "total_time" \in DOMAIN kw THEN kw.total_time
                    ELSE DefaultTotalTime]

SharedResponses ==
    { TransportFailure,
      [failed |-> FALSE, status_code |-> 500,
       content |-> [json |-> FALSE, value |-> JNull]],
      [failed |-> FALSE, status_code |-> 200,
       content |-> [json |-> TRUE, value |-> JNull]],
      [failed |-> FALSE, status_code |-> 200,
       content |-> [json |-> TRUE,
                    value |-> JObj([node |-> NodeAbc,
                                    heartbeat_timeout |-> JNum(300)])]] }

\* caller c calls lookup_node(hardware_info, tmo, st): the looping call is
\* built and started
StartLookup(c) ==
    /\ run[c].pc = "idle"
    /\ \E tmo \in 0..MaxSharedTimeout, st \in 0..MaxSharedStart :
         LET made == lookup_node_kwargs(heap, tmo, st) IN
         /\ heap' = made.heap
         /\ run' = [run EXCEPT ![c] =
                       [pc |-> "call", timeout |-> tmo,
                        starting_interval |-> st, kw |-> made.kw,
                        idle |-> 0, ending |-> "none"]]
    /\ UNCHANGED <<lookupVars, heartbeatVars>>

\* one iteration of the looping call of caller c: _do_lookup(**kw) works on
\* the lists it is given and leaves them changed in place
SharedDoLookup(c) ==
    /\ run[c].pc = "call"
    /\ \E r \in SharedResponses :
         LET lists == do_lookup_lists(run[c].kw)
             e == _do_lookup(r, run[c].kw.timeout, heap[lists.intervals],
                             heap[lists.total_time][1])
         IN  /\ heap' = [heap EXCEPT
                           ![lists.intervals] =
                               Recent(e.intervals, MaxCalls + 1),
                           ![lists.total_time] = <<e.total_time>>]
             /\ run' = [run EXCEPT
                          ![c].pc = IF e.kind = "return" THEN "sleep"
                                    ELSE "end",
                          ![c].idle = IF e.kind = "return" THEN e.value.v
                                      ELSE @,
                          ![c].ending = e.kind]
    /\ UNCHANGED <<lookupVars, heartbeatVars>>

\* the looping call of caller c has slept and calls again
SharedSleep(c) ==
    /\ run[c].pc = "sleep"
    /\ run' = [run EXCEPT ![c].pc = "call"]
    /\ UNCHANGED <<lookupVars, heartbeatVars, heap>>

SharedNext ==
    \E c \in Callers : StartLookup(c) \/ SharedDoLookup(c) \/ SharedSleep(c)

SharedSpec == HeartbeatInit /\ [][SharedNext]_vars

\* the calling thread keeps running: a request ends, a sleep ends, wait()
\* delivers
FairSpec ==
    /\ Spec
    /\ WF_vars(RunDoLookup)
    /\ WF_vars(Sleep)
    /\ WF_vars(LookupNodeEnd)

(* ------------------------------ properties ----------------------------- *)

RECURSIVE Pow2(_)
Pow2(n) == IF n = 0 THEN 1 ELSE 2 * Pow2(n - 1)

\* the validity the lookup contract asks of a parsed body
HasNodeUuid(body) ==
    /\ body.t = "obj"
    /\ "node" \in DOMAIN body.v
    /\ body.v["node"].t = "obj"
    /\ "uuid" \in DOMAIN body.v["node"].v
HasHeartbeatTimeout(body) ==
    /\ body.t = "obj"
    /\ "heartbeat_timeout" \in DOMAIN body.v
ValidLookupResponse(r) ==
    /\ ~r.failed
    /\ r.status_code = 200
    /\ r.content.json
    /\ HasNodeUuid(r.content.value)
    /\ HasHeartbeatTimeout(r.content.value)

NoValue == [kind |-> "retvalue", value |-> DefaultRetvalue]
Returned(v) == [kind |-> "returned", value |-> v]
Running == pc \in {"call", "sleep"}
Stopped == pc \in {"wait", "end"}
Invoked == calls' = calls + 1
\* every invocation of the run so far is on record
Recorded == calls < MaxCalls

\* the latest attempt consulted the deadline check: it neither delivered a
\* body nor was left by a TypeError
ReachedDeadlineCheck ==
    /\ ending' # "TypeError"
    /\ ~(ending' = "LoopingCallDone" /\ looping' # NoValue)

\* C1: timeout respected. An attempt that reaches the deadline check is
\* followed by a sleep and another invocation exactly when
\* total_time + 2 * (last interval) <= timeout; otherwise the looping call
\* ends with the no-value outcome; a run that has stopped invokes nothing
\* more; and with timeout >= 0, total_time <= timeout in every state (with
\* any timeout, in every state from which the work unit is invoked again).
C1_Step ==
    /\ (Invoked /\ ReachedDeadlineCheck) =>
          IF total_time + 2 * Last(intervals) <= timeout
          THEN pc' = "sleep"
          ELSE pc' = "wait" /\ looping' = NoValue
    /\ (Invoked /\ pc' = "sleep") =>
          total_time + 2 * Last(intervals) <= timeout
    /\ Stopped => calls' = calls
C1_State ==
    /\ timeout >= 0 => total_time <= timeout
    /\ (Running /\ calls >= 1) => total_time <= timeout
C2_Termination == <>(pc = "end")

\* C3: failures never escape the lookup loop. Every attempt ends in a
\* returned delay or in LoopingCallDone, never in another exception, and
\* lookup_node ends by returning or by raising LookupNodeError.
C3_NoEscape ==
    /\ ending \in {"none", "return", "LoopingCallDone"}
    /\ result.kind \in {"pending", "returned", "LookupNodeError"}

\* C4: success short-circuits. A valid response (status 200, parseable, with
\* node.uuid and heartbeat_timeout) is always the last one of its run: the
\* looping call ends with exactly its parsed body, lookup_node returns that
\* body, the sleeps number one less than the requests, and nothing is
\* invoked or slept afterwards.
C4_Step ==
    /\ (Invoked /\ ValidLookupResponse(response')) =>
          /\ pc' = "wait"
          /\ looping' = [kind |-> "retvalue", value |-> response'.content.value]
          /\ Len(delays') = calls' - 1
    /\ Stopped => (calls' = calls /\ delays' = delays /\ response' = response)
C4_State ==
    /\ Running => ~ValidLookupResponse(response)
    /\ (pc = "end" /\ ValidLookupResponse(response)) =>
          /\ result = Returned(response.content.value)
          /\ Recorded => Len(delays) = calls - 1
C4_SuccessShortCircuits == [][C4_Step]_vars /\ []C4_State

\* the third attempt was the first valid one and its body was returned
C4_Witness ==
    /\ pc = "end"
    /\ calls = 3
    /\ ValidLookupResponse(response)
    /\ result = Returned(response.content.value)

\* C5: lookup validation. Whatever lookup_node returns is a parsed body
\* with a node object that has a uuid field, and a top-level
\* heartbeat_timeout.
C5_Validation ==
    result.kind = "returned" =>
        (HasNodeUuid(result.value) /\ HasHeartbeatTimeout(result.value))

\* C6: backoff doubling. With starting_interval s the interval history is
\* [s, 2s, 4s, ...] with one entry for the seed and one for each attempt
\* that was granted a retry, and the delay of the N-th retry is s * 2^N,
\* uncapped.
C6_BackoffDoubling ==
    /\ \A i \in 1..Len(intervals) :
          intervals[i] = starting_interval * Pow2(i - 1)
    /\ \A n \in 1..Len(delays) : delays[n] = starting_interval * Pow2(n)
    /\ pc = "sleep" => idle = starting_interval * Pow2(Len(delays) + 1)
    /\ Recorded =>
          /\ Len(intervals) = 1 + Len(delays) + (IF pc = "sleep" THEN 1 ELSE 0)
          /\ Len(intervals) = (IF Running THEN 1 + calls ELSE calls)

\* three retries were granted: the history is s, 2s, 4s, 8s
C6_Witness ==
    /\ starting_interval = 1
    /\ intervals = <<1, 2, 4, 8>>
    /\ delays = <<2, 4, 8>>

\* C7 as stated: the delay slept between the first and the second
\* invocation equals starting_interval.
C7_FirstDelayIsStartingInterval ==
    Len(delays) >= 1 => delays[1] = starting_interval

\* C7, amended: the delay slept between the first and the second invocation
\* is twice starting_interval; starting_interval itself is only the seed of
\* the history and is never slept.
C7_FirstDelayIsDoubled ==
    /\ Len(delays) >= 1 => delays[1] = 2 * starting_interval
    /\ (pc = "sleep" /\ calls = 1) => idle = 2 * starting_interval
    /\ intervals[1] = starting_interval

\* the second invocation was made after a first delay of 6 = 2 * 3
C7_Witness ==
    /\ starting_interval = 3
    /\ calls = 2
    /\ delays = <<6>>

\* the run of scenario B: starting_interval = 1, timeout = 3, HTTP 500 on
\* every attempt so far
ScenarioB ==
    /\ starting_interval = 1
    /\ timeout = 3
    /\ calls >= 1
    /\ all500

\* C8 as stated: scenario B ends in LookupNodeError after exactly 2
\* requests, having slept 1 then 2 (cumulative 1 then 3), the refused
\* interval 4 bringing the cumulative time to 7.
C8_ScenarioBAsStated ==
    (ScenarioB /\ pc = "end") =>
        /\ calls = 2
        /\ result.kind = "LookupNodeError"
        /\ delays = <<1, 2>>
        /\ total_time = 3
        /\ total_time + new_interval(intervals) = 7

\* C8, amended: scenario B ends in LookupNodeError after exactly 2 requests,
\* having slept once, for 2 (cumulative time 2); the refused interval 4
\* would bring the cumulative time to 6 > 3.
C8_ScenarioB ==
    ScenarioB =>
        /\ calls <= 2
        /\ calls = 1 =>
              /\ Running
              /\ total_time = 2
              /\ pc = "sleep" => idle = 2
              /\ pc = "call" => delays = <<2>>
        /\ calls = 2 =>
              /\ Stopped
              /\ looping = NoValue
              /\ delays = <<2>>
              /\ intervals = <<1, 2>>
              /\ total_time = 2
              /\ total_time + 2 * Last(intervals) = 6
        /\ pc = "end" => result.kind = "LookupNodeError"

\* scenario B has run to its end
C8_Witness ==
    /\ ScenarioB
    /\ pc = "end"
    /\ calls = 2

\* the last attempt of the run delivered the body it parsed
DoneWithBody ==
    /\ looping.kind = "retvalue"
    /\ ~response.failed
    /\ response.status_code = 200
    /\ response.content.json
    /\ looping.value = response.content.value

\* C9: timeout is the only fatal lookup outcome. lookup_node raises
\* LookupNodeError exactly when the looping call ended with the no-value
\* outcome, which only a refused retry (total_time + next interval >
\* timeout) produces; a run that ended with a body returns that body, and
\* the no-value sentinel is never returned.
C9_OnlyTimeoutIsFatal ==
    /\ looping = NoValue =>
          (~DoneWithBody /\ total_time + 2 * Last(intervals) > timeout)
    /\ pc = "end" =>
          /\ result.kind = "LookupNodeError" <=> looping = NoValue
          /\ DoneWithBody => result = Returned(looping.value)
          /\ result.kind = "returned" =>
                (result.value # DefaultRetvalue /\ DoneWithBody)

\* a run timed out after a response of status 200 that failed validation
C9_Witness ==
    /\ pc = "end"
    /\ result.kind = "LookupNodeError"
    /\ ~response.failed
    /\ response.status_code = 200
    /\ calls = 2

\* the header texts that are numbers, with the numbers they denote
NumericHeaders ==
    { <<<<"1", "0", ".", "5">>, [neg |-> FALSE, mant |-> 105, exp |-> -1]>>,
      <<<<"3", "0", "0">>, [neg |-> FALSE, mant |-> 3, exp |-> 2]>>,
      <<<<"0">>, [neg |-> FALSE, mant |-> 0, exp |-> 0]>>,
      <<<<" ", "7", " ">>, [neg |-> FALSE, mant |-> 7, exp |-> 0]>>,
      <<<<"-", "2", ".", "5", "0">>, [neg |-> TRUE, mant |-> 25, exp |-> -1]>>,
      <<<<"1", "e", "2">>, [neg |-> FALSE, mant |-> 1, exp |-> 2]>>,
      <<<<"n", "a", "n">>, NaN>> }

\* C10: heartbeat outcome table. heartbeat returns the number in the
\* Heartbeat-Before header exactly when the request succeeds, the status is
\* 204 and the header is present and a number; otherwise it raises
\* HeartbeatError: for a transport failure first, then for a wrong status
\* (whatever the header), then for a missing header, then for an invalid
\* one.
C10_HeartbeatOutcome ==
    hbResult.kind # "pending" =>
        LET r == hbResponse
            numbers == {p \in NumericHeaders : p[1] = r.headers.text}
        IN  IF r.failed
            THEN hbResult.kind = "HeartbeatError" /\ hbResult.msg = "transport"
            ELSE IF r.status_code # 204
            THEN /\ hbResult.kind = "HeartbeatError"
                 /\ hbResult.msg = "Invalid status code"
            ELSE IF ~r.headers.present
            THEN /\ hbResult.kind = "HeartbeatError"
                 /\ hbResult.msg = "Missing Heartbeat-Before header"
            ELSE IF numbers = {}
            THEN /\ hbResult.kind = "HeartbeatError"
                 /\ hbResult.msg = "Invalid Heartbeat-Before header"
            ELSE /\ hbResult.kind = "returned"
                 /\ \A p \in numbers : hbResult.value = p[2]

\* a heartbeat answered 204 with Heartbeat-Before: 10.5 returned 10.5
C10_Witness ==
    /\ hbResponse.status_code = 204
    /\ hbResponse.headers.present
    /\ hbResponse.headers.text = <<"1", "0", ".", "5">>
    /\ hbResult.kind = "returned"
    /\ hbResult.value = [neg |-> FALSE, mant |-> 105, exp |-> -1]

\* what the heartbeat contract calls a failure of the exchange r
HeartbeatFailed(r) ==
    \/ r.failed
    \/ r.status_code # 204
    \/ ~r.headers.present
    \/ \A p \in NumericHeaders : p[1] # r.headers.text

\* C11: heartbeat is single-shot. Every call of heartbeat makes exactly one
\* request and ends with a value or a HeartbeatError decided by that one
\* exchange; a failed exchange always ends in HeartbeatError (it is neither
\* retried nor suppressed), and the call sleeps nothing.
C11_Step ==
    /\ hbRequests' = 1
    /\ hbResult'.kind \in {"returned", "HeartbeatError"}
    /\ HeartbeatFailed(hbResponse') <=> hbResult'.kind = "HeartbeatError"
    /\ hbResult' = heartbeat(hbResponse')
    /\ delays' = delays /\ pc' = pc /\ calls' = calls
C11_HeartbeatSingleShot == [][C11_Step]_vars

\* a heartbeat whose request raised ended in HeartbeatError after that one
\* request
C11_Witness ==
    /\ hbRequests = 1
    /\ hbResponse.failed
    /\ hbResult.kind = "HeartbeatError"

\* C12: RetryState invariant. With any starting_interval the interval
\* history is strictly increasing, each interval twice the one before it,
\* and total_time never decreases from one step to the next.
C12_State ==
    \A i \in 2..Len(intervals) :
        /\ intervals[i] = 2 * intervals[i - 1]
        /\ intervals[i] > intervals[i - 1]
C12_RetryStateInvariant == []C12_State /\ [][total_time' >= total_time]_vars

\* a step of the looping call that invokes _do_lookup
Attempted == pc = "call" /\ pc' # "call"

\* C14: status gate. An attempt ends the run with a body only when the
\* response status is exactly 200; with any other status (201 and 204
\* included) it goes to the deadline check whatever its body holds, and its
\* body is never returned.
C14_Step ==
    (Attempted /\ ~response'.failed /\ response'.status_code # 200) =>
        /\ ending' \in {"return", "LoopingCallDone"}
        /\ ending' = "LoopingCallDone" => looping' = NoValue
        /\ pc' = "sleep" <=> total_time + 2 * Last(intervals) <= timeout
C14_State ==
    /\ (looping.kind = "retvalue" /\ looping # NoValue) =>
          (~response.failed /\ response.status_code = 200)
    /\ result.kind = "returned" =>
          (~response.failed /\ response.status_code = 200)
C14_StatusGate == [][C14_Step]_vars /\ []C14_State

\* a 201 response with a valid body was answered by a retry
C14_Witness ==
    /\ pc = "sleep"
    /\ ~response.failed
    /\ response.status_code = 201
    /\ response.content.json
    /\ HasNodeUuid(response.content.value)
    /\ HasHeartbeatTimeout(response.content.value)

\* C15: the deadline check precedes the sleep. A failed attempt that finds
\* total_time + next > timeout ends the run at once with the no-value
\* outcome, intervals and total_time unchanged and nothing slept afterwards;
\* a run ends without a value in no other way; and a run that has ended has
\* slept one time less than it invoked the work unit.
C15_Step ==
    /\ (Attempted /\ ~ValidLookupResponse(response')
           /\ total_time + 2 * Last(intervals) > timeout) =>
          /\ pc' = "wait"
          /\ looping' = NoValue
          /\ intervals' = intervals
          /\ total_time' = total_time
    /\ Stopped => delays' = delays
C15_State ==
    pc = "end" =>
        /\ result.kind # "returned" =>
              /\ looping = NoValue
              /\ total_time + 2 * Last(intervals) > timeout
        /\ Recorded => Len(delays) = calls - 1
C15_DeadlineBeforeSleep == [][C15_Step]_vars /\ []C15_State

\* C16: the work unit is always invoked at least once. With every timeout
\* the run starts with a request, not with a deadline check; when the
\* timeout admits no retry, a valid first response is returned and a failing
\* first response yields LookupNodeError, after exactly one request.
C16_AtLeastOnce ==
    /\ calls = 0 => pc = "call"
    /\ Stopped => calls >= 1
    /\ (pc = "end" /\ timeout < 2 * starting_interval) =>
          /\ calls = 1
          /\ IF ValidLookupResponse(response)
             THEN result = Returned(response.content.value)
             ELSE result.kind = "LookupNodeError"

RECURSIVE Sum(_)
Sum(s) == IF s = <<>> THEN 0 ELSE s[1] + Sum(Tail(s))

\* the delays handed to the looping call so far: those slept, and the one
\* being slept
Handed == IF pc = "sleep" THEN Append(delays, idle) ELSE delays

\* C17: cumulative-time bookkeeping. total_time is the sum of the intervals
\* after the seed, which are exactly the delays handed to the looping call
\* so far, and for a history of length n it is starting_interval * (2^n - 2);
\* the seed is neither added nor handed over.
C17_Bookkeeping ==
    Recorded =>
        /\ total_time = Sum(Tail(intervals))
        /\ Handed = Tail(intervals)
        /\ total_time = Sum(Handed)
        /\ total_time = starting_interval * (Pow2(Len(intervals)) - 2)
        /\ intervals[1] = starting_interval

\* two retries were granted to a run seeded with 2: total_time is 4 + 8
C17_Witness ==
    /\ starting_interval = 2
    /\ intervals = <<2, 4, 8>>
    /\ delays = <<4, 8>>
    /\ total_time = 12

\* the largest k >= 0 with s * (2^(k+1) - 2) <= T
Retries(st, T) ==
    CHOOSE k \in 0..(T + 1) :
        /\ st * (Pow2(k + 1) - 2) <= T
        /\ \A j \in (k + 1)..(T + 1) : st * (Pow2(j + 1) - 2) > T

\* C18: attempt count under permanent failure. With starting_interval
\* s > 0, timeout T >= 0 and every request failing, lookup_node raises
\* LookupNodeError after exactly 1 + K requests, K the largest k with
\* s * (2^(k+1) - 2) <= T.
C18_AttemptCount ==
    (allFailed /\ starting_interval > 0 /\ timeout >= 0) =>
        /\ calls <= 1 + Retries(starting_interval, timeout)
        /\ Stopped =>
              /\ calls = 1 + Retries(starting_interval, timeout)
              /\ looping = NoValue
        /\ pc = "end" => result.kind = "LookupNodeError"

\* every request failed and lookup_node raised after 1 + 3 of them
C18_Witness ==
    /\ allFailed
    /\ starting_interval = 1
    /\ timeout = MaxTimeout
    /\ pc = "end"
    /\ result.kind = "LookupNodeError"
    /\ calls = 4

\* the lists the looping call of caller c works on
Lists(c) == do_lookup_lists(run[c].kw)
Called(c) == run[c].pc # "idle"

\* C13: RetryState is per call. Every lookup_node call starts on
\* intervals = [starting_interval] and total_time = [0], whatever earlier and
\* running calls have done; the lists of two calls are distinct objects and
\* none of them is a default of _do_lookup; a step of one call leaves the
\* lists of the other as they were; and the defaults are never changed.
C13_Step ==
    \A c \in Callers :
        /\ (~Called(c) /\ Called(c)') =>
              /\ heap'[Lists(c)'.intervals] = <<run'[c].starting_interval>>
              /\ heap'[Lists(c)'.total_time] = <<0>>
        /\ \A d \in Callers \ {c} :
              (run'[c] # run[c] /\ Called(d)) =>
                  /\ Lists(d)' = Lists(d)
                  /\ heap'[Lists(d).intervals] = heap[Lists(d).intervals]
                  /\ heap'[Lists(d).total_time] = heap[Lists(d).total_time]
C13_State ==
    /\ heap[DefaultIntervals] = <<1>>
    /\ heap[DefaultTotalTime] = <<0>>
    /\ \A c \in Callers :
          Called(c) =>
              /\ Lists(c).intervals # Lists(c).total_time
              /\ {Lists(c).intervals, Lists(c).total_time}
                     \cap {DefaultIntervals, DefaultTotalTime} = {}
              /\ \A d \in Callers \ {c} :
                    Called(d) =>
                        {Lists(c).intervals, Lists(c).total_time}
                            \cap {Lists(d).intervals, Lists(d).total_time} = {}
C13_PerCallRetryState == [][C13_Step]_vars /\ []C13_State

\* two calls are under way, each with a history of its own
C13_Witness ==
    /\ run[1].pc = "sleep"
    /\ run[2].pc = "sleep"
    /\ heap[Lists(1).intervals] = <<1, 2, 4>>
    /\ heap[Lists(1).total_time] = <<6>>
    /\ heap[Lists(2).intervals] = <<2, 4>>
    /\ heap[Lists(2).total_time] = <<4>>

====
